---- MODULE Spec2Model ----
(***************************************************************************)
(* Model of telegram-pin-fetcher (src/src/main.rs): one run of async_main, *)
(* from the loaded configuration to the exit of the process.  Every remote *)
(* call and every prompt is one step; the answers of the remote services,  *)
(* of the operator's console and of the session file are chosen by the     *)
(* environment.                                                            *)
(***************************************************************************)
EXTENDS Integers, Sequences, FiniteSets, TLC

\* ------------------------------------------------------------------ bounds
\* Longest list of chat handles in the configuration.
MaxChats == 2
\* Longest pinned sequence a chat's search yields before it is exhausted.
MaxPinned == 2

\* ------------------------------------------------------------ option values
\* Rust's Option<T>: None is the empty sequence, Some(x) the one-element one.
None == <<>>
Some(x) == <<x>>
IsSome(o) == Len(o) = 1
Unwrap(o) == o[1]

\* ----------------------------------------------------------- configuration
\* config.usernames: the first n handles of this list, n \in 0..MaxChats.
ChatNames == <<"alpha", "beta", "gamma", "delta">>
Usernames == { SubSeq(ChatNames, 1, n) : n \in 0..MaxChats }
\* upload.provider: the supported value and one that is not.
Providers == {"gofile", "Gofile"}

\* ------------------------------------------------------ remote pinned items
\* msg.date(): a UTC timestamp; only year, month, day and hour are modelled.
Timestamps ==
  { [y |-> 2023, m |-> 1, d |-> 10, h |-> 21],
    [y |-> 2023, m |-> 5, d |-> 1, h |-> 9] }
\* msg.sender(): no sender, a sender without username, a sender with one.
Senders == { None, Some([username |-> None]), Some([username |-> Some("ann")]) }
Medias == { None, Some("photo") }
Texts == { "note" }
Items == [media : Medias, sender : Senders, text : Texts, date : Timestamps]

\* ------------------------------------------------------------ date strings
\* A String is the sequence of its character codes ('0' = 48, '-' = 45).
Digit(n) == 48 + n
Dash == 45
Pad2(n) == << Digit((n \div 10) % 10), Digit(n % 10) >>
Pad4(n) == << Digit((n \div 1000) % 10), Digit((n \div 100) % 10) >> \o Pad2(n)
\* DateTime::date_naive: the calendar date, time of day dropped.
DateNaive(ts) == [y |-> ts.y, m |-> ts.m, d |-> ts.d]
\* NaiveDate::to_string: "YYYY-MM-DD".
DateToString(nd) == Pad4(nd.y) \o <<Dash>> \o Pad2(nd.m) \o <<Dash>> \o Pad2(nd.d)

\* str::cmp: lexicographic comparison of the character codes.
RECURSIVE StrCmp(_, _)
StrCmp(a, b) ==
  IF a = <<>> /\ b = <<>> THEN "Equal"
  ELSE IF a = <<>> THEN "Less"
  ELSE IF b = <<>> THEN "Greater"
  ELSE IF a[1] < b[1] THEN "Less"
  ELSE IF a[1] > b[1] THEN "Greater"
  ELSE StrCmp(Tail(a), Tail(b))

\* Bug variant: the comparison is turned round, |a, b| b.date.cmp(&a.date).
DateCmp_reversed(a, b) == StrCmp(b.date, a.date)

\* The comparator of the final sort: |a, b| a.date.cmp(&b.date).
DateCmp(a, b) == StrCmp(a.date, b.date)

\* Insert x behind every element that does not compare Greater than it.
RECURSIVE InsertSorted(_, _)
InsertSorted(s, x) ==
  IF s = <<>> THEN <<x>>
  ELSE IF DateCmp(s[1], x) = "Greater" THEN <<x>> \o s
  ELSE <<s[1]>> \o InsertSorted(Tail(s), x)

\* Vec::sort_by with DateCmp: a stable sort. The set of the one longer sorted
\* prefix is there for the prefix to be computed once.
RECURSIVE SortByDateFrom(_, _)
SortByDateFrom(sorted, rest) ==
  IF rest = <<>> THEN sorted
  ELSE CHOOSE result \in { SortByDateFrom(longer, Tail(rest)) :
                             longer \in {InsertSorted(sorted, rest[1])} } : TRUE
\* Bug variant: an unstable sort, x is put before the elements equal to it.
RECURSIVE InsertBeforeEqual(_, _)
InsertBeforeEqual(s, x) ==
  IF s = <<>> THEN <<x>>
  ELSE IF DateCmp(s[1], x) = "Less" THEN <<s[1]>> \o InsertBeforeEqual(Tail(s), x)
  ELSE <<x>> \o s
RECURSIVE SortUnstableFrom(_, _)
SortUnstableFrom(sorted, rest) ==
  IF rest = <<>> THEN sorted
  ELSE SortUnstableFrom(InsertBeforeEqual(sorted, rest[1]), Tail(rest))
SortByDate_unstable(s) == SortUnstableFrom(<<>>, s)

SortByDate(s) == SortByDateFrom(<<>>, s)

\* ------------------------------------------------------------------- state
VARIABLES
  usernames,      \* config.usernames
  provider,       \* upload.provider
  sessionFile,    \* the session file on disk: "missing", "blank" or "stored"
  storeWritable,  \* whether the session file's place can be written
  pc,             \* the statement async_main is at
  auth,           \* the login state the run is in
  startAuthorized,\* None until is_authorized answered, then Some(answer)
  k,              \* index of the chat the for loop is at (1-based)
  fetched,        \* items the current chat's pinned sequence has yielded
  lastItem,       \* None, or Some(item) the current chat's sequence yielded last
  messages,       \* the Vec<Message> of get_pinned_messages, then the batch;
                  \* dropped (emptied) when get_pinned_messages fails
  collected,      \* history: how many Messages were pushed in this run
  calls,          \* how often each remote call, prompt or file write was made
  last,           \* the latest remote call or prompt and how it answered, or
                  \* the println! that could not write to standard output
  uploaded,       \* None, or Some(payload) of the multipart POST that was sent
  delivery,       \* "none", or how the upload went: "sent", "send_failed",
                  \* "http_error" or "body_failed"
  outcome         \* "running", or how main ended: "Ok", "Err" or "panic"

vars == << usernames, provider, sessionFile, storeWritable, pc, auth,
           startAuthorized, k, fetched, lastItem, messages, collected, calls,
           last, uploaded, delivery,
           outcome >>

Ops == { "is_authorized", "prompt_phone", "request_login_code", "prompt_code",
         "sign_in", "prompt_password", "check_password", "resolve_username",
         "search_messages", "total", "post", "text",
         "save_session", "sign_out" }

Called(op) == [calls EXCEPT ![op] = @ + 1]
Answer(op, answer) == [op |-> op, answer |-> answer]

config == << usernames, provider, storeWritable >>
collection == << k, fetched, lastItem, messages, collected >>
upload == << uploaded, delivery >>

\* The process ends: main returns Ok or Err, or a panic unwinds it.
Exit(o) == pc' = "done" /\ outcome' = o
\* main's return value as the exit status of the process; a panic exits 101.
ExitCode(o) == IF o = "Ok" THEN 0 ELSE IF o = "Err" THEN 1 ELSE 101
Fatal == outcome \in {"Err", "panic"}
\* Control moves on to `next`; "Err" and "panic" end the process.
Goto(next) ==
  IF next \in {"Err", "panic"} THEN Exit(next)
  ELSE pc' = next /\ UNCHANGED outcome

\* println!(..): the line is written and the run goes on to `next`, or
\* standard output cannot be written and the macro panics.
Println(printed, next) == IF printed THEN next ELSE "panic"
PrintFailed == Answer("println", "Err")

Init ==
  /\ usernames \in Usernames
  /\ provider \in Providers
  /\ sessionFile \in {"missing", "stored"}
  /\ storeWritable \in BOOLEAN
  /\ pc = "connect"
  /\ auth = "Unauthenticated"
  /\ startAuthorized = None
  /\ k = 1
  /\ fetched = 0
  /\ lastItem = None
  /\ messages = <<>>
  /\ collected = 0
  /\ calls = [op \in Ops |-> 0]
  /\ last = Answer("none", "none")
  /\ uploaded = None
  /\ delivery = "none"
  /\ outcome = "running"

\* --------------------------------------------------------------- connecting
\* Session::load_file_or_create(..).unwrap(), then Client::connect(..).await?
Connect ==
  /\ pc = "connect"
  /\ \/ \* the file is missing and cannot be created, or cannot be loaded
        /\ \/ sessionFile = "missing" /\ ~storeWritable
           \/ sessionFile = "stored"
        /\ Exit("panic")
        /\ UNCHANGED sessionFile
     \/ \* the session is loaded or created blank; connecting fails
        /\ sessionFile = "stored" \/ storeWritable
        /\ sessionFile' = IF sessionFile = "missing" THEN "blank" ELSE sessionFile
        /\ Exit("Err")
     \/ \* connected
        /\ sessionFile = "stored" \/ storeWritable
        /\ sessionFile' = IF sessionFile = "missing" THEN "blank" ELSE sessionFile
        /\ pc' = "is_authorized"
        /\ UNCHANGED outcome
  /\ UNCHANGED << config, auth, startAuthorized, collection, calls, last, upload >>

\* -------------------------------------------------------------------- login
\* Bug variant: the login block is run whatever is_authorized answers.
NeedsLogin_always(authorized) == TRUE

\* if !client.is_authorized().await? { .. }: whether the login block is run.
NeedsLogin(authorized) == ~authorized

\* The answers of client.sign_in: Ok, or one of the SignInError variants.
SignInResults == {"Ok", "PasswordRequired", "InvalidCode", "SignUpRequired", "Other"}

\* Bug variant: an error other than PasswordRequired is let through.
SignInNext_lenient(r) ==
  IF r = "PasswordRequired" THEN "prompt_password" ELSE "signed_in"

\* Bug variant: the password is asked for after an accepted code as well.
SignInNext_askpassword(r) ==
  IF r \in {"PasswordRequired", "Ok"} THEN "prompt_password" ELSE "panic"

\* match signed_in { .. }: where each answer of sign_in leads.
SignInNext(r) ==
  IF r = "PasswordRequired" THEN "prompt_password"
  ELSE IF r = "Ok" THEN "signed_in"
  ELSE "panic"

\* client.is_authorized().await?, and println!("Signing in...") when the
\* login block is entered.
IsAuthorized ==
  /\ pc = "is_authorized"
  /\ calls' = Called("is_authorized")
  /\ \/ /\ Exit("Err")
        /\ last' = Answer("is_authorized", "Err")
        /\ UNCHANGED << auth, startAuthorized >>
     \/ \E authorized \in BOOLEAN :
          /\ startAuthorized' = Some(authorized)
          /\ IF NeedsLogin(authorized)
               THEN \E printed \in BOOLEAN :
                      /\ Goto(Println(printed, "prompt_phone"))
                      /\ last' = IF printed THEN Answer("is_authorized", "Ok")
                                            ELSE PrintFailed
                      /\ auth' = IF printed THEN auth ELSE "Failed"
               ELSE /\ pc' = "for_chat" /\ auth' = "Authenticated"
                    /\ last' = Answer("is_authorized", "Ok")
                    /\ UNCHANGED outcome
  /\ UNCHANGED << config, sessionFile, collection, upload >>

\* prompt(..)? at the step `at`: the line is read and the run goes on to
\* `next`, or the console fails and the error is returned.
Prompt(at, next) ==
  /\ pc = at
  /\ calls' = Called(at)
  /\ \/ pc' = next /\ last' = Answer(at, "Ok") /\ UNCHANGED << auth, outcome >>
     \/ Exit("Err") /\ last' = Answer(at, "Err") /\ auth' = "Failed"
  /\ UNCHANGED << config, sessionFile, startAuthorized, collection, upload >>

PromptPhone == Prompt("prompt_phone", "request_login_code")
PromptCode == Prompt("prompt_code", "sign_in")
PromptPassword == Prompt("prompt_password", "check_password")

\* Bug variant: a failed request for the login code is issued again.
RequestLoginCode_retry ==
  /\ pc = "request_login_code"
  /\ calls' = Called("request_login_code")
  /\ \/ /\ pc' = "prompt_code"
        /\ auth' = "AwaitingCode"
        /\ last' = Answer("request_login_code", "Ok")
        /\ UNCHANGED outcome
     \/ /\ pc' = "request_login_code"
        /\ last' = Answer("request_login_code", "Err")
        /\ UNCHANGED << auth, outcome >>
  /\ UNCHANGED << config, sessionFile, startAuthorized, collection, upload >>

\* client.request_login_code(&phone).await?
RequestLoginCode ==
  /\ pc = "request_login_code"
  /\ calls' = Called("request_login_code")
  /\ \/ /\ pc' = "prompt_code"
        /\ auth' = "AwaitingCode"
        /\ last' = Answer("request_login_code", "Ok")
        /\ UNCHANGED outcome
     \/ /\ Exit("Err")
        /\ auth' = "Failed"
        /\ last' = Answer("request_login_code", "Err")
  /\ UNCHANGED << config, sessionFile, startAuthorized, collection, upload >>

\* client.sign_in(&token, &code).await and the match on its answer; after
\* the Ok arm println!("Signed in!").
SignIn ==
  /\ pc = "sign_in"
  /\ calls' = Called("sign_in")
  /\ \E r \in SignInResults :
       LET next == SignInNext(r) IN
         IF next = "prompt_password"
           THEN /\ pc' = next /\ auth' = "AwaitingPassword" /\ UNCHANGED outcome
                /\ last' = Answer("sign_in", r)
         ELSE IF next = "signed_in"
           THEN \E printed \in BOOLEAN :
                  /\ Goto(Println(printed, "for_chat"))
                  /\ auth' = "Authenticated"
                  /\ last' = IF printed THEN Answer("sign_in", r) ELSE PrintFailed
         ELSE /\ Exit("panic") /\ auth' = "Failed"
              /\ last' = Answer("sign_in", r)
  /\ UNCHANGED << config, sessionFile, startAuthorized, collection, upload >>

\* client.check_password(password_token, password.trim()).await?, and after
\* the match println!("Signed in!").
CheckPassword ==
  /\ pc = "check_password"
  /\ calls' = Called("check_password")
  /\ \/ \E printed \in BOOLEAN :
          /\ Goto(Println(printed, "for_chat"))
          /\ auth' = "Authenticated"
          /\ last' = IF printed THEN Answer("check_password", "Ok") ELSE PrintFailed
     \/ /\ Exit("Err")
        /\ auth' = "Failed"
        /\ last' = Answer("check_password", "Err")
  /\ UNCHANGED << config, sessionFile, startAuthorized, collection, upload >>

\* --------------------------------------------------------------- collection
\* The answers of client.resolve_username(..).await: Err, Ok(None), Ok(Some).
ResolveResults == {"Err", "None", "Some"}
\* Bug variant: a handle that resolves to no chat is searched all the same.
ResolveNext_unchecked(r) == IF r = "Err" THEN "Err" ELSE "total"

\* `?` on the answer, then unwrap_or_else(|| panic!(..)).
ResolveNext(r) ==
  IF r = "Err" THEN "Err" ELSE IF r = "None" THEN "panic" ELSE "total"

\* Bug variant: a returned Err is swallowed and the batch is handed on.
PinnedNext_swallow(next) == IF next = "Err" THEN "upload_messages" ELSE next

\* Bug variant: unwrap_or_default, a failed collection is an empty batch.
UnwrapPinned_default(result) == "upload_messages"

\* Ok(get_pinned_messages(client, config).await.unwrap()): an Err panics.
UnwrapPinned(result) == IF result = "Ok" THEN "upload_messages" ELSE "panic"

\* Where a step of get_pinned_messages leads: a returned Err reaches the
\* unwrap of the caller, anything else is as it is.
PinnedNext(next) == IF next = "Err" THEN UnwrapPinned("Err") ELSE next

\* The answers of pinned_messages.total().await: Err or a count.
TotalResults == {[ok |-> FALSE, n |-> 0]} \cup [ok : {TRUE}, n : 0..MaxPinned]
\* Bug variant: a total of zero is taken to mean that there is nothing to page.
TotalNext_skipempty(t, printed) ==
  IF ~t.ok THEN "panic"
  ELSE IF t.n = 0 THEN Println(printed, "for_chat") ELSE Println(printed, "next")

\* println!(.., pinned_messages.total().await.unwrap()): the unwrap among the
\* arguments, then the print.
TotalNext(t, printed) == IF t.ok THEN Println(printed, "next") ELSE "panic"

\* Bug variant: the media test is missing.
ProcessItem_nomedia(item) ==
  IF ~IsSome(item.sender) THEN "panic"
  ELSE IF ~IsSome(Unwrap(item.sender).username) THEN "panic"
  ELSE "push"

\* Bug variant: an item whose sender has no username is skipped.
ProcessItem_skipnohandle(item) ==
  IF IsSome(item.media) THEN "skip"
  ELSE IF ~IsSome(item.sender) THEN "panic"
  ELSE IF ~IsSome(Unwrap(item.sender).username) THEN "skip"
  ELSE "push"

\* The body of the while loop for one item: "skip", "panic" or "push".
ProcessItem(item) ==
  IF IsSome(item.media) THEN "skip"
  ELSE IF ~IsSome(item.sender) THEN "panic"
  ELSE IF ~IsSome(Unwrap(item.sender).username) THEN "panic"
  ELSE "push"

\* The Message built from an item.  Beside its three fields it keeps where it
\* comes from: the chat's index, its place in discovery order, and the item.
MakeMessage(item, chat, n) ==
  [ sender |-> Unwrap(Unwrap(item.sender).username),
    text |-> item.text,
    date |-> DateToString(DateNaive(item.date)),
    src |-> [chat |-> chat, n |-> n, item |-> item] ]

\* Bug variant: the provider is validated before a chat is resolved.
ResolveUsername_validating ==
  /\ pc = "for_chat"
  /\ k <= Len(usernames)
  /\ IF provider # "gofile"
       THEN /\ Exit("panic")
            /\ messages' = <<>>
            /\ UNCHANGED << calls, last >>
       ELSE \E r \in ResolveResults :
              LET next == PinnedNext(ResolveNext(r)) IN
                /\ Goto(next)
                /\ last' = Answer("resolve_username", r)
                /\ calls' = IF next = "total"
                              THEN [calls EXCEPT !["resolve_username"] = @ + 1,
                                                 !["search_messages"] = @ + 1]
                              ELSE Called("resolve_username")
                /\ messages' = IF next = "total" THEN messages ELSE <<>>
  /\ UNCHANGED << config, sessionFile, auth, startAuthorized, k, fetched, lastItem,
                  collected, upload >>

\* for chat_name in chat_names: resolve_username, then search_messages.
ResolveUsername ==
  /\ pc = "for_chat"
  /\ k <= Len(usernames)
  /\ \E r \in ResolveResults :
       LET next == PinnedNext(ResolveNext(r)) IN
         /\ Goto(next)
         /\ last' = Answer("resolve_username", r)
         /\ calls' = IF next = "total"
                       THEN [calls EXCEPT !["resolve_username"] = @ + 1,
                                          !["search_messages"] = @ + 1]
                       ELSE Called("resolve_username")
         /\ messages' = IF next = "total" THEN messages ELSE <<>>
  /\ UNCHANGED << config, sessionFile, auth, startAuthorized, k, fetched, lastItem,
                  collected, upload >>

\* println!("Chat {} has {} total pinned messages.", ..total().await.unwrap())
Total ==
  /\ pc = "total"
  /\ calls' = Called("total")
  /\ \E t \in TotalResults, printed \in BOOLEAN :
       LET next == PinnedNext(TotalNext(t, printed)) IN
         /\ Goto(next)
         /\ last' = IF ~t.ok THEN Answer("total", "Err")
                    ELSE IF printed THEN Answer("total", "Ok")
                    ELSE PrintFailed
         /\ messages' = IF next = "next" THEN messages ELSE <<>>
  /\ UNCHANGED << config, sessionFile, auth, startAuthorized, k, fetched, lastItem,
                  collected, upload >>

\* Bug variant: `if let` for `while let`, the loop moves to the next chat
\* after one item instead of draining the sequence.
NextItem_iflet ==
  /\ pc = "next"
  /\ \/ /\ last' = Answer("next", "Err")
        /\ Goto(PinnedNext("Err"))
        /\ messages' = <<>>
        /\ UNCHANGED << k, fetched, lastItem, collected >>
     \/ /\ last' = Answer("next", "None")
        /\ k' = k + 1
        /\ fetched' = 0
        /\ lastItem' = None
        /\ pc' = "for_chat"
        /\ UNCHANGED << messages, collected, outcome >>
     \/ /\ fetched < MaxPinned
        /\ last' = Answer("next", "Some")
        /\ fetched' = 0
        /\ k' = k + 1
        /\ \E item \in Items :
             LET does == ProcessItem(item) IN
               /\ lastItem' = None
               /\ Goto(IF does = "panic" THEN PinnedNext("panic") ELSE "for_chat")
               /\ messages' =
                    IF does = "push"
                      THEN Append(messages, MakeMessage(item, k, Len(messages) + 1))
                    ELSE IF does = "skip" THEN messages
                    ELSE <<>>
               /\ collected' = IF does = "push" THEN collected + 1 ELSE collected
  /\ UNCHANGED << config, sessionFile, auth, startAuthorized, calls, upload >>

\* while let Some(msg) = pinned_messages.next().await? { .. }
NextItem ==
  /\ pc = "next"
  /\ \/ \* the fetch fails
        /\ last' = Answer("next", "Err")
        /\ Goto(PinnedNext("Err"))
        /\ messages' = <<>>
        /\ UNCHANGED << k, fetched, lastItem, collected >>
     \/ \* the sequence is exhausted: on to the next chat
        /\ last' = Answer("next", "None")
        /\ k' = k + 1
        /\ fetched' = 0
        /\ lastItem' = None
        /\ pc' = "for_chat"
        /\ UNCHANGED << messages, collected, outcome >>
     \/ \* one more item
        /\ fetched < MaxPinned
        /\ last' = Answer("next", "Some")
        /\ fetched' = fetched + 1
        /\ \E item \in Items :
             LET does == ProcessItem(item) IN
               /\ lastItem' = Some(item)
               /\ Goto(IF does = "panic" THEN PinnedNext("panic") ELSE "next")
               /\ messages' =
                    IF does = "push"
                      THEN Append(messages, MakeMessage(item, k, Len(messages) + 1))
                    ELSE IF does = "skip" THEN messages
                    ELSE <<>>
               /\ collected' = IF does = "push" THEN collected + 1 ELSE collected
        /\ UNCHANGED k
  /\ UNCHANGED << config, sessionFile, auth, startAuthorized, calls, upload >>

\* Bug variant: the loop's end test is off by one, the return is never reached.
ReturnMessages_offbyone ==
  /\ pc = "for_chat"
  /\ k > Len(usernames) + 1
  /\ messages' = SortByDate(messages)
  /\ Goto(UnwrapPinned("Ok"))
  /\ UNCHANGED << config, sessionFile, auth, startAuthorized, k, fetched, lastItem,
                  collected, calls, last, upload >>

\* Bug variant: an empty Vec is taken for a failed collection.
ReturnMessages_nonempty ==
  /\ pc = "for_chat"
  /\ k > Len(usernames)
  /\ messages' = SortByDate(messages)
  /\ Goto(IF messages = <<>> THEN "panic" ELSE UnwrapPinned("Ok"))
  /\ UNCHANGED << config, sessionFile, auth, startAuthorized, k, fetched, lastItem,
                  collected, calls, last, upload >>

\* After the last chat: messages.sort_by(..); Ok(messages), unwrapped by
\* login_and_get_pinned_messages and handed to upload_messages.
ReturnMessages ==
  /\ pc = "for_chat"
  /\ k > Len(usernames)
  /\ messages' = SortByDate(messages)
  /\ Goto(UnwrapPinned("Ok"))
  /\ UNCHANGED << config, sessionFile, auth, startAuthorized, k, fetched, lastItem,
                  collected, calls, last, upload >>

\* ----------------------------------------------------------------- delivery
\* serde_json::to_string(&messages): an array of objects, fields in the
\* order sender, text, date.
Payload(msgs) ==
  [ i \in 1..Len(msgs) |->
      << <<"sender", msgs[i].sender>>, <<"text", msgs[i].text>>,
         <<"date", msgs[i].date>> >> ]

\* Bug variant: the provider is not looked at.
ProviderSupported_any(p) == TRUE

\* creds_toml.upload.provider != "gofile" panics.
ProviderSupported(p) == p = "gofile"

\* Bug variant: `?` on upload_messages, its Err becomes async_main's.
AsyncMainResult_propagate(uploadResult, printed) == uploadResult

\* match upload_messages(..).await { Err(_) => println!(..), _ => () }; Ok(())
AsyncMainResult(uploadResult, printed) ==
  IF uploadResult = "Err" THEN Println(printed, "Ok") ELSE "Ok"

\* upload_messages up to the built request.
UploadMessages ==
  /\ pc = "upload_messages"
  /\ Goto(IF ProviderSupported(provider) THEN "send" ELSE "panic")
  /\ UNCHANGED << config, sessionFile, auth, startAuthorized, collection, calls,
                  last, upload >>

\* The statuses a response may carry.
Statuses == {200, 500}

\* req.send().await
Send ==
  /\ pc = "send"
  /\ calls' = Called("post")
  /\ uploaded' = Some(Payload(messages))
  /\ \/ \* Err(e) => println!(..), then upload_messages returns Ok(())
        \E printed \in BOOLEAN :
          /\ last' = IF printed THEN Answer("post", "Err") ELSE PrintFailed
          /\ delivery' = "send_failed"
          /\ Exit(Println(printed, AsyncMainResult("Ok", TRUE)))
     \/ \* Ok(res)
        \E status \in Statuses :
          /\ last' = Answer("post", "Ok")
          /\ delivery' = IF status = 200 THEN "sent" ELSE "http_error"
          /\ pc' = "text"
          /\ UNCHANGED outcome
  /\ UNCHANGED << config, sessionFile, auth, startAuthorized, collection >>

\* res.text().await?
ResponseText ==
  /\ pc = "text"
  /\ calls' = Called("text")
  /\ \/ \* the body is read: println!("Response from remote: {}", ..)
        \E printed \in BOOLEAN :
          /\ last' = IF printed THEN Answer("text", "Ok") ELSE PrintFailed
          /\ Exit(Println(printed, AsyncMainResult("Ok", TRUE)))
          /\ UNCHANGED delivery
     \/ \* the body cannot be read: upload_messages returns the Err, which
        \* async_main reports with println!("Error uploading messages")
        \E printed \in BOOLEAN :
          /\ last' = IF printed THEN Answer("text", "Err") ELSE PrintFailed
          /\ delivery' = "body_failed"
          /\ Exit(AsyncMainResult("Err", printed))
  /\ UNCHANGED << config, sessionFile, auth, startAuthorized, collection, uploaded >>

\* ------------------------------------------------------------ specification
Next ==
  \/ Connect
  \/ IsAuthorized
  \/ PromptPhone
  \/ RequestLoginCode
  \/ PromptCode
  \/ SignIn
  \/ PromptPassword
  \/ CheckPassword
  \/ ResolveUsername
  \/ Total
  \/ NextItem
  \/ ReturnMessages
  \/ UploadMessages
  \/ Send
  \/ ResponseText

Spec == Init /\ [][Next]_vars

\* Every remote call and every prompt answers in the end, and block_on drives
\* async_main to its end: a step that can be taken is taken.
FairSpec == Spec /\ WF_vars(Next)

TypeOK ==
  /\ usernames \in Usernames
  /\ provider \in Providers
  /\ sessionFile \in {"missing", "blank", "stored"}
  /\ storeWritable \in BOOLEAN
  /\ auth \in {"Unauthenticated", "AwaitingCode", "AwaitingPassword",
               "Authenticated", "Failed"}
  /\ k \in 1..(MaxChats + 1)
  /\ fetched \in 0..MaxPinned
  /\ outcome \in {"running", "Ok", "Err", "panic"}
  /\ (pc = "done") = (outcome # "running")

\* ------------------------------------------------------------------- claims
LoginOps == { "prompt_phone", "request_login_code", "prompt_code", "sign_in",
              "prompt_password", "check_password" }
NoUpload == uploaded = None /\ calls["post"] = 0 /\ delivery = "none"
DeliveryFailed == delivery \in {"send_failed", "http_error", "body_failed"}

\* C1 as stated: once the request is being sent, no failure of the upload
\* (the send failing, the body failing to be read, a non-success response) is
\* fatal: the run is never ended other than with Ok and exit status 0.
C1_AsClaimed ==
  /\ pc \in {"send", "text"} => outcome = "running"
  /\ (pc = "done" /\ (DeliveryFailed \/ calls["post"] > 0)) =>
        (outcome = "Ok" /\ ExitCode(outcome) = 0)

\* C1: once the request is being sent, no failure of the upload (the send
\* failing, the body failing to be read, a non-success response) ends the run
\* other than with Ok and exit status 0, as long as the line that reports the
\* upload's outcome is written to standard output; when that println! cannot
\* write, the run ends with a panic, after a failed upload and after a
\* successful one.
C1_UploadFailureNotFatal ==
  /\ pc \in {"send", "text"} => outcome = "running"
  /\ (pc = "done" /\ (DeliveryFailed \/ calls["post"] > 0)) =>
        IF last = PrintFailed
          THEN outcome = "panic" /\ ExitCode(outcome) = 101
          ELSE outcome = "Ok" /\ ExitCode(outcome) = 0
\* The response body could not be read, and the run ended with Ok.
C1_Witness ==
  /\ pc = "done" /\ delivery = "body_failed" /\ last = Answer("text", "Err")
  /\ provider = "gofile" /\ outcome = "Ok"

\* C2: with a provider other than "gofile" the run ends fatally when it ends,
\* and no request to the upload endpoint is sent at any point of it.
C2_UnsupportedProviderFatal ==
  provider # "gofile" =>
    /\ NoUpload
    /\ pc \notin {"send", "text"}
    /\ pc = "done" => Fatal
\* The run died at the provider test, after a collection that gathered Messages.
C2_Witness ==
  /\ provider # "gofile" /\ pc = "done" /\ outcome = "panic"
  /\ auth = "Authenticated" /\ k > Len(usernames) /\ collected > 0
  /\ NoUpload

\* C3: an upload request is sent only after authentication reached
\* Authenticated and every configured handle was resolved and its pinned
\* sequence drained, with nothing fatal up to the request; a run that ended
\* fatally sent no upload request, unless what ended it is the println! that
\* reports the outcome of the request already sent, and re-issued no call.
C3_NoPartialOutput ==
  /\ (~NoUpload \/ pc \in {"upload_messages", "send", "text"}) =>
        /\ auth = "Authenticated"
        /\ k = Len(usernames) + 1
        /\ calls["resolve_username"] = Len(usernames)
        /\ calls["search_messages"] = Len(usernames)
        /\ calls["total"] = Len(usernames)
        /\ Fatal => (last = PrintFailed /\ calls["post"] = 1)
  /\ pc \in {"upload_messages", "send", "text"} => outcome = "running"
  /\ Fatal =>
        /\ NoUpload \/ last = PrintFailed
        /\ \A op \in LoginOps \cup {"is_authorized"} : calls[op] <= 1
        /\ calls["resolve_username"] <= k
        /\ calls["search_messages"] <= k
\* The batch of two chats was sent.
C3_Witness ==
  /\ pc = "done" /\ IsSome(uploaded) /\ Len(usernames) = 2
  /\ collected >= 2 /\ Len(Unwrap(uploaded)) = collected

\* C4: sign_in failing otherwise than with PasswordRequired, and
\* check_password failing, leave the login Failed and end the run fatally,
\* with no chat resolved and no upload.
C4_VerificationFailureFatal ==
  (\/ last.op = "sign_in" /\ last.answer \notin {"Ok", "PasswordRequired"}
   \/ last = Answer("check_password", "Err")) =>
    /\ auth = "Failed"
    /\ pc = "done" /\ Fatal /\ ExitCode(outcome) # 0
    /\ calls["resolve_username"] = 0 /\ calls["search_messages"] = 0
    /\ NoUpload
\* The code was rejected.
C4_Witness ==
  /\ last = Answer("sign_in", "InvalidCode")
  /\ auth = "Failed" /\ outcome = "panic"

\* C5 (as claimed): a run that did not start authorized and authenticated
\* interactively has asked the session store to persist the session exactly
\* once by the time it ends.
C5_SessionPersistedOnce ==
  (pc = "done" /\ startAuthorized = Some(FALSE) /\ auth = "Authenticated") =>
    calls["save_session"] = 1

\* C6 (as claimed): after an interactive authentication whose session cannot
\* be persisted the run goes on and has issued one sign-out by its end,
\* whatever that sign-out answered; a run whose persistence did not fail
\* issues none.
C6_SignOutAfterFailedPersist ==
  /\ (pc = "done" /\ startAuthorized = Some(FALSE) /\ auth = "Authenticated"
       /\ ~storeWritable) => calls["sign_out"] = 1
  /\ (pc = "done" /\ ~(startAuthorized = Some(FALSE) /\ auth = "Authenticated"
       /\ ~storeWritable)) => calls["sign_out"] = 0

\* C7: when is_authorized answers true the login is Authenticated at once:
\* no prompt is shown and no login call is issued in the run.
C7_AuthorizedSkipsLogin ==
  startAuthorized = Some(TRUE) =>
    /\ auth = "Authenticated"
    /\ \A op \in LoginOps : calls[op] = 0
    /\ pc \notin LoginOps
\* An authorized start that went on to collect and deliver.
C7_Witness ==
  /\ startAuthorized = Some(TRUE) /\ pc = "done" /\ outcome = "Ok"
  /\ collected > 0 /\ IsSome(uploaded)

\* C8: a handle that resolves to no chat ends the run with a panic at once:
\* no resolve or search call is issued for a later handle and no Message of
\* any chat is output.
C8_UnresolvedHandleFatal ==
  last = Answer("resolve_username", "None") =>
    /\ pc = "done" /\ outcome = "panic"
    /\ calls["resolve_username"] = k
    /\ calls["search_messages"] = k - 1
    /\ messages = <<>>
    /\ NoUpload
\* The second handle did not resolve after the first chat gave Messages.
C8_Witness ==
  /\ last = Answer("resolve_username", "None")
  /\ k = 2 /\ collected > 0 /\ outcome = "panic" /\ NoUpload

\* C9: an item with media is skipped whatever its other fields, without ending
\* the run, and every Message of the batch comes from an item without media
\* whose sender has a username, which is the Message's sender.
FromQualifying(m) ==
  /\ ~IsSome(m.src.item.media)
  /\ IsSome(m.src.item.sender)
  /\ IsSome(Unwrap(m.src.item.sender).username)
  /\ m.sender = Unwrap(Unwrap(m.src.item.sender).username)
C9_MediaExcluded ==
  /\ \A i \in 1..Len(messages) : FromQualifying(messages[i])
  /\ IsSome(uploaded) => Len(Unwrap(uploaded)) = Len(messages)
  /\ (last = Answer("next", "Some") /\ IsSome(Unwrap(lastItem).media)) =>
        /\ pc = "next" /\ outcome = "running"
        /\ Cardinality({ i \in 1..Len(messages) : messages[i].src.chat = k })
             < fetched
\* An item with media and no sender was just skipped, after a Message of the
\* same chat was pushed.
C9_Witness ==
  /\ last = Answer("next", "Some") /\ pc = "next"
  /\ IsSome(Unwrap(lastItem).media) /\ ~IsSome(Unwrap(lastItem).sender)
  /\ fetched = 2 /\ Len(messages) = 1

\* C10: an item without media whose sender has no username is not skipped:
\* it ends the run with a panic, with no further fetch, no later chat and no
\* upload.
NoHandleItem(item) ==
  /\ ~IsSome(item.media)
  /\ IsSome(item.sender)
  /\ ~IsSome(Unwrap(item.sender).username)
C10_NoHandleFatal ==
  (last = Answer("next", "Some") /\ NoHandleItem(Unwrap(lastItem))) =>
    /\ pc = "done" /\ outcome = "panic"
    /\ calls["resolve_username"] = k
    /\ messages = <<>>
    /\ NoUpload
\* The first chat of two gave a Message and then such an item.
C10_Witness ==
  /\ last = Answer("next", "Some") /\ NoHandleItem(Unwrap(lastItem))
  /\ outcome = "panic" /\ k = 1 /\ Len(usernames) = 2
  /\ fetched = 2 /\ collected = 1

\* The batch get_pinned_messages returned is in `messages` from the return on.
BatchReturned == pc \in {"upload_messages", "send", "text"} \/ IsSome(uploaded)

\* C11: the returned batch is a permutation of the Messages pushed, ascending
\* by date string, and Messages of equal date keep their discovery order,
\* which is chat order and then pagination order.
C11_SortedStablePermutation ==
  BatchReturned =>
    LET n == Len(messages) IN
      /\ n = collected
      /\ { messages[i].src.n : i \in 1..n } = 1..collected
      /\ \A i \in 1..n :
           messages[i] = MakeMessage(messages[i].src.item, messages[i].src.chat,
                                     messages[i].src.n)
      /\ \A i \in 1..(n - 1) :
           StrCmp(messages[i].date, messages[i + 1].date) # "Greater"
      /\ \A i \in 1..n : \A j \in (i + 1)..n :
           messages[i].date = messages[j].date =>
             /\ messages[i].src.n < messages[j].src.n
             /\ messages[i].src.chat <= messages[j].src.chat
      /\ \A i, j \in 1..n :
           messages[i].src.n < messages[j].src.n =>
             messages[i].src.chat <= messages[j].src.chat
      /\ IsSome(uploaded) => Unwrap(uploaded) = Payload(messages)
\* A batch of three in which the sort moved a Message forward and two
\* Messages of different chats have the same date.
C11_Witness ==
  /\ BatchReturned /\ Len(messages) = 3
  /\ \E i, j \in 1..3 : i < j /\ messages[i].src.n > messages[j].src.n
  /\ \E i, j \in 1..3 :
       /\ i < j /\ messages[i].date = messages[j].date
       /\ messages[i].src.chat < messages[j].src.chat

\* The scenario of C12: chats alpha and beta, alpha's Messages discovered as
\* 2023-05-01 then 2023-01-10, beta's one Message dated 2023-01-10.
D0110 == DateToString([y |-> 2023, m |-> 1, d |-> 10])
D0501 == DateToString([y |-> 2023, m |-> 5, d |-> 1])
C12_Scenario ==
  /\ usernames = <<"alpha", "beta">>
  /\ BatchReturned
  /\ collected = 3
  /\ { <<messages[i].src.chat, messages[i].src.n, messages[i].date>> :
         i \in 1..Len(messages) }
       = { <<1, 1, D0501>>, <<1, 2, D0110>>, <<2, 3, D0110>> }
\* The batch as chat/date pairs, in its order.
BatchOrder ==
  [ i \in 1..Len(messages) |-> <<usernames[messages[i].src.chat], messages[i].date>> ]

\* C12 (as claimed): in the scenario the batch is
\* [beta/2023-01-10, alpha/2023-01-10, alpha/2023-05-01].
C12_AsClaimed ==
  C12_Scenario =>
    BatchOrder = << <<"beta", D0110>>, <<"alpha", D0110>>, <<"alpha", D0501>> >>
\* C12 (amended): in the scenario the batch is
\* [alpha/2023-01-10, beta/2023-01-10, alpha/2023-05-01]: alpha's Message of
\* 2023-01-10 was discovered before beta's and the sort is stable.
C12_StableOrder ==
  C12_Scenario =>
    BatchOrder = << <<"alpha", D0110>>, <<"beta", D0110>>, <<"alpha", D0501>> >>
\* The scenario's batch is about to be sent.
C12_Witness == C12_Scenario /\ pc = "send"

\* A valid configuration without chat handles.
ZeroChats == usernames = <<>> /\ provider = "gofile"

\* C13 (as claimed): with zero chat handles every run issues no resolve or
\* search call, has an empty batch, and ends successful after exactly one
\* delivery attempt.
C13_AsClaimed ==
  ZeroChats =>
    /\ calls["resolve_username"] = 0 /\ calls["search_messages"] = 0
    /\ messages = <<>>
    /\ pc = "done" => (calls["post"] = 1 /\ outcome = "Ok")
\* C13 (amended): with zero chat handles no resolve, search or total call is
\* issued and the batch is empty; a run that got authenticated and in which
\* no println! failed ends successful after exactly one delivery attempt, of
\* the empty batch, whatever the attempt's outcome; a run in which a println!
\* could not write ends with a panic; a run that did not get authenticated
\* ends fatally without a delivery attempt.
C13_ZeroChats ==
  ZeroChats =>
    /\ calls["resolve_username"] = 0 /\ calls["search_messages"] = 0
    /\ calls["total"] = 0 /\ fetched = 0 /\ collected = 0
    /\ messages = <<>>
    /\ calls["post"] <= 1
    /\ (pc = "done" /\ auth = "Authenticated" /\ last # PrintFailed) =>
         /\ calls["post"] = 1 /\ uploaded = Some(<<>>)
         /\ outcome = "Ok" /\ ExitCode(outcome) = 0
    /\ (pc = "done" /\ last = PrintFailed) =>
         /\ outcome = "panic"
         /\ calls["post"] = 1 => uploaded = Some(<<>>)
    /\ (pc = "done" /\ auth # "Authenticated") => (Fatal /\ NoUpload)
\* The empty batch could not be sent and the run ended with Ok.
C13_Witness ==
  /\ ZeroChats /\ pc = "done" /\ auth = "Authenticated"
  /\ delivery = "send_failed" /\ uploaded = Some(<<>>) /\ outcome = "Ok"

\* An answer that reports a failed call, prompt or println!.
FailedAnswer ==
  \/ last.answer = "Err"
  \/ last.op = "sign_in" /\ last.answer \notin {"Ok", "PasswordRequired"}

\* C14: no remote call is retried: the login calls and the upload POST are
\* issued at most once, resolve-chat and search-pinned at most once for each
\* handle the loop has reached, and a failed call ends the run, so it is never
\* issued again.
C14_NoRetry ==
  /\ \A op \in {"is_authorized", "request_login_code", "sign_in",
                "check_password", "post", "text"} : calls[op] <= 1
  /\ \A op \in {"prompt_phone", "prompt_code", "prompt_password"} : calls[op] <= 1
  /\ calls["resolve_username"] <= Len(usernames)
  /\ calls["resolve_username"] <= k
  /\ pc \in {"total", "next"} => calls["resolve_username"] = k
  /\ pc \in {"for_chat", "upload_messages", "send", "text"} =>
       calls["resolve_username"] = k - 1
  /\ calls["search_messages"] <= calls["resolve_username"]
  /\ calls["total"] <= calls["search_messages"]
  /\ FailedAnswer => pc = "done"
\* The run ended on a failed request for the login code, issued once.
C14_Witness ==
  /\ last = Answer("request_login_code", "Err")
  /\ pc = "done" /\ calls["request_login_code"] = 1

Exhausted == Answer("next", "None")

\* C15: chats are processed one after the other in configuration order: the
\* loop moves on by one chat, and only on the answer that the chat's sequence
\* is exhausted; resolve-chat for a later handle is issued only right after
\* that answer, and the upload only after the last chat's.
C15_Step ==
  /\ k' # k => (k' = k + 1 /\ last' = Exhausted /\ pc = "next")
  /\ calls'["resolve_username"] # calls["resolve_username"] =>
       /\ pc = "for_chat" /\ fetched = 0
       /\ calls["resolve_username"] = k - 1
       /\ calls'["resolve_username"] = k
       /\ k > 1 => last = Exhausted
  /\ calls'["post"] # calls["post"] =>
       /\ k = Len(usernames) + 1
       /\ calls["resolve_username"] = Len(usernames)
       /\ Len(usernames) > 0 => last = Exhausted
C15_Sequential == [][C15_Step]_vars
\* The second handle was resolved after the first chat gave two Messages.
C15_Witness ==
  /\ last = Answer("resolve_username", "Some") /\ k = 2 /\ pc = "total"
  /\ collected = 2

\* The login transitions C16 allows, with the answer that makes each; the
\* answer that authenticates is not to be seen when the println! behind it
\* could not write.
LoginTransition(a, b, answer) ==
  \/ a = "Unauthenticated" /\ b = "AwaitingCode"
       /\ answer = Answer("request_login_code", "Ok")
  \/ a = "AwaitingCode" /\ b = "Authenticated"
       /\ answer \in {Answer("sign_in", "Ok"), PrintFailed}
  \/ a = "AwaitingCode" /\ b = "AwaitingPassword"
       /\ answer = Answer("sign_in", "PasswordRequired")
  \/ a = "AwaitingPassword" /\ b = "Authenticated"
       /\ answer \in {Answer("check_password", "Ok"), PrintFailed}
  \/ a \in {"Unauthenticated", "AwaitingCode", "AwaitingPassword"} /\ b = "Failed"

\* C16: the login state changes only along Unauthenticated -> AwaitingCode ->
\* Authenticated, AwaitingCode -> AwaitingPassword -> Authenticated, or into
\* Failed (an authorized start apart, which is no login); the password prompt
\* is shown and check_password issued only after sign_in answered
\* PasswordRequired; resolve-chat and search-pinned are issued only when
\* Authenticated.
C16_Step ==
  /\ auth' # auth =>
       \/ LoginTransition(auth, auth', last')
       \/ /\ auth = "Unauthenticated" /\ auth' = "Authenticated"
          /\ startAuthorized' = Some(TRUE) /\ pc = "is_authorized"
  /\ calls'["prompt_password"] # calls["prompt_password"] =>
       (auth = "AwaitingPassword" /\ last = Answer("sign_in", "PasswordRequired"))
  /\ calls'["check_password"] # calls["check_password"] =>
       (auth = "AwaitingPassword" /\ last = Answer("prompt_password", "Ok")
        /\ calls["prompt_password"] = 1)
  /\ pc' \in {"prompt_password", "check_password"} => auth' = "AwaitingPassword"
  /\ (\/ calls'["resolve_username"] # calls["resolve_username"]
      \/ calls'["search_messages"] # calls["search_messages"]
      \/ calls'["total"] # calls["total"]
      \/ pc \in {"for_chat", "total", "next"}) => auth = "Authenticated"
C16_LoginStateMachine == [][C16_Step]_vars
\* A login through code and password, after which the first handle was
\* resolved.
C16_Witness ==
  /\ auth = "Authenticated" /\ calls["check_password"] = 1
  /\ calls["sign_in"] = 1 /\ last = Answer("resolve_username", "Some")

\* C17: when every call answers and every pinned sequence is finite the run
\* ends, with Ok after exactly one upload attempt or fatally, and then without
\* an attempt or by the println! behind the one attempt; the
\* pagination of a chat goes on after every item that is not fatal, however
\* many were gathered, and stops only on the answer that the sequence is
\* exhausted.
C17_Step ==
  /\ (pc = "next" /\ pc' # "next" /\ outcome' = "running") =>
       (last' = Exhausted /\ pc' = "for_chat")
  /\ (pc = "next" /\ last' = Answer("next", "Some") /\ outcome' = "running") =>
       pc' = "next"
C17_EndsDrained ==
  /\ <>(pc = "done")
  /\ [](pc = "done" =>
          \/ outcome = "Ok" /\ calls["post"] = 1
          \/ Fatal /\ calls["post"] = 0
          \/ Fatal /\ calls["post"] = 1 /\ last = PrintFailed)
  /\ [][C17_Step]_vars
\* A run that gathered every item the chats could give ended with Ok.
C17_Witness ==
  /\ pc = "done" /\ outcome = "Ok" /\ calls["post"] = 1
  /\ Len(usernames) = MaxChats /\ collected = MaxChats * MaxPinned

\* C18 as stated: whatever the total-count query returns, the run goes on
\* and the Messages gathered are the same.
C18_AsClaimed ==
  [][pc = "total" => (outcome' = "running" /\ messages' = messages)]_vars

\* C18: whatever count the total-count query reports, once the line with the
\* count is printed the run goes on to the pagination of the same chat with the
\* Messages gathered so far unchanged; when the query fails, or the line
\* cannot be written to standard output, the run ends with a panic, the
\* Messages gathered are dropped and nothing is uploaded.
C18_Step ==
  pc = "total" =>
    \/ /\ last' = Answer("total", "Ok")
       /\ pc' = "next" /\ outcome' = "running"
       /\ messages' = messages /\ collected' = collected
       /\ k' = k /\ fetched' = fetched
    \/ /\ last' \in {Answer("total", "Err"), PrintFailed}
       /\ pc' = "done" /\ outcome' = "panic"
       /\ messages' = <<>> /\ uploaded' = None /\ calls'["post"] = 0
C18_TotalOnlyReported == [][C18_Step]_vars
\* The total of the second chat was reported, the Messages of the first chat
\* are still held and the pagination of the second is about to start.
C18_Witness ==
  /\ last = Answer("total", "Ok") /\ pc = "next"
  /\ k = 2 /\ collected > 0 /\ Len(messages) = collected

TransportError ==
  last \in {Answer("resolve_username", "Err"), Answer("next", "Err")}

\* C19: a resolve-chat call or a pagination fetch that fails with an error
\* ends the run with a panic, as an unresolved handle does: the Messages
\* gathered so far are dropped, no chat behind the failing one has been
\* resolved, and nothing is uploaded.
C19_TransportErrorFatal ==
  TransportError =>
    /\ pc = "done" /\ outcome = "panic" /\ ExitCode(outcome) = 101
    /\ messages = <<>>
    /\ calls["resolve_username"] = k /\ k <= Len(usernames)
    /\ NoUpload
\* The fetch failed in the first of two chats after a Message had been
\* gathered from it.
C19_Witness ==
  /\ last = Answer("next", "Err")
  /\ collected > 0 /\ k = 1 /\ Len(usernames) = 2
  /\ pc = "done"

\* The run was ended by the answer of a call or of a prompt, by a println!,
\* by the session file, or by a pinned item, none of which looks at the
\* provider.
StoppedEarlier ==
  \/ last.op = "none"
  \/ FailedAnswer
  \/ last = Answer("resolve_username", "None")
  \/ /\ last = Answer("next", "Some")
     /\ IsSome(lastItem) /\ ProcessItem(Unwrap(lastItem)) = "panic"
FullCollection ==
  /\ auth = "Authenticated"
  /\ k = Len(usernames) + 1
  /\ calls["resolve_username"] = Len(usernames)
  /\ calls["search_messages"] = Len(usernames)
  /\ calls["total"] = Len(usernames)
  /\ Len(messages) = collected

\* C20: the provider is looked at only in the delivery step: a run with an
\* unsupported provider that no failing call, prompt or item ended earlier has
\* authenticated and has resolved, searched and drained every configured chat
\* when it ends, and then it ends with a panic and without an upload; with any
\* provider the delivery step is reached only after the full collection.
C20_ProviderCheckedLast ==
  /\ (provider # "gofile" /\ pc = "done" /\ ~StoppedEarlier) =>
       (FullCollection /\ outcome = "panic" /\ NoUpload)
  /\ pc = "upload_messages" => (FullCollection /\ outcome = "running")
\* After a login with a password and two drained chats the run died at the
\* provider test.
C20_Witness ==
  /\ provider = "Gofile" /\ pc = "done" /\ outcome = "panic" /\ ~StoppedEarlier
  /\ k = 3 /\ collected >= 2
  /\ startAuthorized = Some(FALSE) /\ calls["check_password"] = 1

====
